---- MODULE Spec2Model ----
(***************************************************************************)
(* State-machine model of the CoinGecko price oracle (the caching         *)
(* controller pmm_simple_mexc, the uncached controller pmm_simple_lbank,  *)
(* the two price delegates), of the CoinGecko market-making script, of   *)
(* the random-amount market-making script and of the LBank balance        *)
(* manager; the CoinGecko utility functions are also called directly, on  *)
(* arbitrary arguments.  Spec is the safety specification of all of them; *)
(* LiveSpec is the caching oracles under a host that keeps polling.       *)
(*                                                                         *)
(* One program is instantiated per behaviour (variable prog); each handler *)
(* of a program is one action.  The variable last records what the most   *)
(* recent handler invocation read, requested and returned, so that        *)
(* properties of a single call are state predicates.                      *)
(*                                                                         *)
(* Time is counted in whole units; the refresh interval (30 s by default  *)
(* in the source) is an instantiation parameter drawn from                *)
(* 1..MaxInterval.  Prices and balances are non-negative integers that    *)
(* stand for the decimals / floats of the source.                         *)
(***************************************************************************)
EXTENDS Integers, Sequences, FiniteSets, TLC

VARIABLES
    prog,                       \* which program is instantiated
    clock,                      \* the host's wall clock: time.time() / current_timestamp
    _base_token_coingecko_id,   \* Optional[str]
    _last_cg_price,             \* Optional[Decimal]  (_last_price in CoinGeckoPriceDelegate)
    _last_cg_price_time,        \* float              (_last_time in CoinGeckoPriceDelegate)
    _refresh_interval,          \* float              (_cg_price_refresh_interval / refresh_interval)
    phase,                      \* simple_pmm_cg: "new", then "running" or "failed" after init_markets
    order_refresh_time,         \* simple_pmm_cg: config.order_refresh_time
    create_timestamp,           \* simple_pmm_cg: SimplePMMCMC.create_timestamp
    active_orders,              \* simple_pmm_cg: the orders the strategy has on the exchange
    target_balance,             \* BalanceManager.target_balance
    min_difference,             \* BalanceManager.min_difference
    config,                     \* simple_pmm_random: self.config, the refresh-time range
    pc,                         \* shared oracle: the statement the price call in progress has reached
    call,                       \* shared oracle: the locals of that call (now, cg_price) and the reading it found
    last,                       \* observation of the most recent handler invocation
    history                     \* what the instance has requested since construction

oracle_vars == <<_base_token_coingecko_id, _last_cg_price, _last_cg_price_time,
                 _refresh_interval>>
script_vars == <<phase, order_refresh_time, create_timestamp, active_orders>>
balance_vars == <<target_balance, min_difference>>
thread_vars == <<pc, call>>
vars == <<prog, clock, oracle_vars, script_vars, balance_vars, config, thread_vars, last,
          history>>

(***************************************************************************)
(* Bounds of the model.                                                    *)
(***************************************************************************)
MaxTime == 5
MaxInterval == 2
MaxPrice == 2
MaxTickers == 2
MaxCatalog == 2
MaxBalance == 4

(***************************************************************************)
(* Python values.  None, str, JSON numbers and Decimal are tagged records  *)
(* so that an Optional value can be compared with None.                    *)
(***************************************************************************)
None == [tag |-> "None"]
Str(s) == [tag |-> "str", v |-> s]
Num(n) == [tag |-> "num", v |-> n]
Decimal(n) == [tag |-> "Decimal", v |-> n]
NaN == [tag |-> "NaN"]

\* The outcome of a call that ends with an exception instead of a value.
Raised == [tag |-> "raised"]

\* Decimal(str(price_usd)) for a JSON number: the decimal with the same value.
DecimalOfStr(price_usd) == Decimal(price_usd.v)

\* str.lower() on the symbols that occur in the model.
Lower(s) ==
    CASE s = "MNTL" -> "mntl"
      [] s = "Mntl" -> "mntl"
      [] s = "BTC" -> "btc"
      [] s = "Osmosis" -> "osmosis"
      [] OTHER -> s

RECURSIVE SeqsUpTo(_, _)
SeqsUpTo(S, n) ==
    IF n = 0 THEN {<<>>}
    ELSE LET shorter == SeqsUpTo(S, n - 1)
         IN shorter \cup {Append(s, e) : s \in {t \in shorter : Len(t) = n - 1}, e \in S}

\* The least element of a non-empty set of indices.
Min(S) == CHOOSE i \in S : \A j \in S : i <= j

(***************************************************************************)
(* The provider's answers (environment inputs).                            *)
(***************************************************************************)
RequestException == [status |-> "RequestException"]

\* A body that is not the expected JSON list: response.json() or the
\* iteration over it raises an error that is not a RequestException.
InvalidBody == [status |-> "InvalidBody"]

\* GET /coins/list: a list of {symbol, id}.
CatalogCoins ==
    { [symbol |-> "mntl", id |-> "assetmantle"],
      [symbol |-> "MNTL", id |-> "mantle-2"],
      [symbol |-> "btc", id |-> "bitcoin"] }

CatalogResponses ==
    {RequestException, InvalidBody} \cup
    {[status |-> "ok", data |-> d] : d \in SeqsUpTo(CatalogCoins, MaxCatalog)}

\* GET /coins/{id}/tickers: {"tickers": [{market: {identifier}, converted_last: {usd}}]}.
Markets == {"osmosis", "Osmosis", "mxc"}

\* A ticker whose "converted_last" is null instead of an object: reading its
\* "usd" raises AttributeError.
Malformed == [tag |-> "malformed"]

TickerEntries ==
    { [identifier |-> m, usd |-> u] :
        m \in Markets, u \in {None, Malformed} \cup {Num(p) : p \in 0..MaxPrice} }

TickerResponses ==
    {RequestException, [status |-> "ok", has_tickers |-> FALSE, tickers |-> <<>>]} \cup
    {[status |-> "ok", has_tickers |-> TRUE, tickers |-> t] :
        t \in SeqsUpTo(TickerEntries, MaxTickers)}

(***************************************************************************)
(* Configuration.                                                          *)
(***************************************************************************)
base_token == "MNTL"
quote_market == "osmosis"          \* pmm_simple_mexc, simple_pmm_cg, the delegates
lbank_quote_market == "mxc"        \* pmm_simple_lbank

\* simple_pmm_cg: SimplePMMCMCConfig, the spreads in thousandths
order_amount == Decimal(22000)
bid_spread == 2
ask_spread == 2

\* lbank_balance_manager: BalanceManager.__init__
balance_base_token == "mntl"
trading_pair == "mntl_usdt"

Programs ==
    {"pmm_simple_mexc", "pmm_simple_lbank", "coin_gecko_asset_price_delegate",
     "custom_coingecko_price_delegate", "simple_pmm_cg", "simple_pmm_random",
     "lbank_balance_manager", "coingecko_utilities"}

\* The arguments of the direct calls of the utility functions.
Symbols == {"MNTL", "Mntl", "BTC", "eth"}

LevelIds == {"buy_0", "sell_0"}
ArgPrices == {Decimal(1)}
Amounts == {Decimal(1)}

(***************************************************************************)
(* The CoinGecko utilities.                                                *)
(***************************************************************************)
\* Mutant of get_coingecko_id: the symbols are compared as they are written.
get_coingecko_id_case_sensitive(response, symbol) ==
    IF response.status # "ok" THEN None
    ELSE LET data == response.data
             hits == {i \in 1..Len(data) : data[i].symbol = symbol}
         IN IF hits = {} THEN None ELSE Str(data[Min(hits)].id)

\* get_coingecko_id: the id of the first coin whose symbol matches ignoring
\* case; any exception is caught and gives None.
get_coingecko_id(response, symbol) ==
    IF response.status # "ok" THEN None
    ELSE LET data == response.data
             hits == {i \in 1..Len(data) : Lower(data[i].symbol) = Lower(symbol)}
         IN IF hits = {} THEN None ELSE Str(data[Min(hits)].id)

\* Mutant of get_price_from_specific_market_coingecko: the market identifier
\* is matched ignoring case.
get_price_from_normalized_market(response, quote_market_identifier) ==
    IF response.status # "ok" THEN None
    ELSE IF response.has_tickers /\ response.tickers # <<>>
    THEN LET tickers == response.tickers
             hits == {i \in 1..Len(tickers) :
                         Lower(tickers[i].identifier) = Lower(quote_market_identifier)}
         IN IF hits = {} THEN None
            ELSE LET price_usd == tickers[Min(hits)].usd
                 IN IF price_usd = Malformed THEN Raised
                    ELSE IF price_usd # None THEN DecimalOfStr(price_usd) ELSE None
    ELSE None

\* get_price_from_specific_market_coingecko: the converted USD price of the
\* first ticker whose market identifier equals quote_market_identifier.  Only
\* a RequestException is caught: the AttributeError of a malformed matching
\* ticker is raised to the caller.
get_price_from_specific_market_coingecko(response, quote_market_identifier) ==
    IF response.status # "ok" THEN None
    ELSE IF response.has_tickers /\ response.tickers # <<>>
    THEN LET tickers == response.tickers
             hits == {i \in 1..Len(tickers) :
                         tickers[i].identifier = quote_market_identifier}
         IN IF hits = {} THEN None
            ELSE LET price_usd == tickers[Min(hits)].usd
                 IN IF price_usd = Malformed THEN Raised
                    ELSE IF price_usd # None THEN DecimalOfStr(price_usd) ELSE None
    ELSE None

\* The body of CoinGeckoPriceDelegate.get_price's try block: the first ticker
\* of the market that carries a price (a priceless match does not end the
\* loop); every exception is caught, so a malformed matching ticker met before
\* a priced one ends the scan without a price.
delegate_fetch(response, quote_market_identifier) ==
    IF response.status # "ok" THEN None
    ELSE LET tickers == response.tickers
             hits == {i \in 1..Len(tickers) :
                         /\ tickers[i].identifier = quote_market_identifier
                         /\ tickers[i].usd # None}
         IN IF hits = {} THEN None
            ELSE IF tickers[Min(hits)].usd = Malformed THEN None
            ELSE DecimalOfStr(tickers[Min(hits)].usd)

(***************************************************************************)
(* What a request can come back with.  A handler's behaviour depends on    *)
(* the provider's answer only through the value its parsing function       *)
(* returns, so the actions draw from the image of the answers: the kind    *)
(* of answer (for the record) with the value parsed from it.               *)
(***************************************************************************)
\* Which branch of the ticker parsing an answer takes, for market.
TickerKind(response, market) ==
    IF response.status # "ok" THEN "request_error"
    ELSE IF ~response.has_tickers THEN "no_tickers"
    ELSE IF response.tickers = <<>> THEN "empty_tickers"
    ELSE LET tickers == response.tickers
             hits == {i \in 1..Len(tickers) : tickers[i].identifier = market}
         IN IF hits = {} THEN "no_market"
            ELSE IF tickers[Min(hits)].usd = None THEN "no_price"
            ELSE IF tickers[Min(hits)].usd = Malformed THEN "malformed"
            ELSE "priced"

CatalogKind(response, symbol) ==
    IF response.status = "RequestException" THEN "request_error"
    ELSE IF response.status = "InvalidBody" THEN "parse_error"
    ELSE IF \E i \in 1..Len(response.data) :
                Lower(response.data[i].symbol) = Lower(symbol)
    THEN "listed" ELSE "not_listed"

CatalogLookups ==
    { [kind |-> CatalogKind(r, base_token), id |-> get_coingecko_id(r, base_token)] :
        r \in CatalogResponses }

TickerFetches ==
    { [kind |-> TickerKind(r, quote_market),
       cg_price |-> get_price_from_specific_market_coingecko(r, quote_market)] :
        r \in TickerResponses }

LbankTickerFetches ==
    { [kind |-> TickerKind(r, lbank_quote_market),
       cg_price |-> get_price_from_specific_market_coingecko(r, lbank_quote_market)] :
        r \in TickerResponses }

DelegateFetches ==
    { [kind |-> TickerKind(r, quote_market),
       cg_price |-> delegate_fetch(r, quote_market)] :
        r \in TickerResponses }

\* A request that is not issued has no answer.
NotLookedUp == [kind |-> "not requested", id |-> None]
NotFetched == [kind |-> "not requested", cg_price |-> None]

(***************************************************************************)
(* The cache policy shared by the caching controller and the delegates.    *)
(***************************************************************************)
\* Mutants of is_refresh_due: a refresh on every call; a reading that never
\* expires; a reading that expires when its age reaches the interval.
refresh_on_every_call(last_price, last_time, now, interval) ==
    TRUE

refresh_never_expires(last_price, last_time, now, interval) ==
    last_price = None

refresh_due_at_interval(last_price, last_time, now, interval) ==
    last_price = None \/ now - last_time >= interval

\* "if self._last_cg_price is None or now - self._last_cg_price_time > interval"
is_refresh_due(last_price, last_time, now, interval) ==
    last_price = None \/ now - last_time > interval

\* Mutant of updated_cache: a failed fetch invalidates the cached reading.
cache_cleared_on_failure(last_price, last_time, cg_price, now) ==
    IF cg_price # None THEN <<cg_price, now>> ELSE <<None, 0>>

\* Mutant of updated_cache: a failed fetch stamps the time of the attempt.
cache_stamped_on_failure(last_price, last_time, cg_price, now) ==
    IF cg_price # None THEN <<cg_price, now>> ELSE <<last_price, now>>

\* Mutant of updated_cache: the fetched price is returned for this call's use
\* but never stored.
cache_write_dropped(last_price, last_time, cg_price, now) ==
    <<last_price, last_time>>

\* "if cg_price is not None: self._last_cg_price = cg_price;
\*  self._last_cg_price_time = now" -- the pair <<price, time>> after a fetch.
updated_cache(last_price, last_time, cg_price, now) ==
    IF cg_price # None THEN <<cg_price, now>> ELSE <<last_price, last_time>>

\* Mutant of mexc_entry_price: a failed refresh falls through to the cached price.
mexc_entry_price_stale(id, due, cg_price, last_price) ==
    IF id = None THEN None ELSE last_price

\* Mutant of mexc_entry_price: the entry price is read from the cache before
\* the refresh.
mexc_entry_price_before_refresh(id, due, cg_price, last_price) ==
    IF id = None THEN None
    ELSE IF due /\ cg_price = None THEN None
    ELSE IF _last_cg_price # None THEN _last_cg_price
    ELSE last_price

\* PMMSimpleController.get_executor_config: the entry price, or None where the
\* handler returns None (identifier unavailable, or the refresh failed).
mexc_entry_price(id, due, cg_price, last_price) ==
    IF id = None THEN None
    ELSE IF due /\ cg_price = None THEN None
    ELSE last_price

\* CoinGeckoAssetPriceDelegate.c_get_mid_price's return statement.
c_get_mid_price_return(last_price) ==
    IF last_price # None THEN last_price ELSE NaN

\* "trade_type = self.get_trade_type_from_level_id(level_id)": the side the base
\* class derives from the level of the call (the derivation itself is the base
\* class's and is left uninterpreted).
get_trade_type_from_level_id(level_id) ==
    [tag |-> "TradeType", level_id |-> level_id]

\* The executor configuration: the fields that come from the call and from the
\* oracle.  The remaining fields (timestamp, connector_name, trading_pair,
\* triple_barrier_config, leverage) come from the configuration and the host
\* and are left out.
PositionExecutorConfig(level_id, entry_price, amount, side) ==
    [level_id |-> level_id, entry_price |-> entry_price, amount |-> amount,
     side |-> side]

\* Mutant of lookup_due: the catalog is consulted on every call.
lookup_on_every_call(id) ==
    TRUE

\* "if self._base_token_coingecko_id is None:" -- the call looks the symbol up.
lookup_due(id) ==
    id = None

\* "self._base_token_coingecko_id = get_coingecko_id(...)" under that test: the
\* identifier the instance holds after the lookup step.
resolved_id(id, catalog) ==
    IF lookup_due(id) THEN catalog.id ELSE id

\* The requests the instance has made, after a call that issued lookups
\* catalog requests (ending with identifier id) and fetches ticker requests
\* (ending with cg_price) at time now.
\*   catalog_hits : the catalog requests that returned an identifier
\*   lookup_failed: the last call that needed the identifier looked it up in vain
\*   fetched_ok   : some ticker fetch has returned a price
\*   fetch_at     : the time of the latest ticker request (0: none yet)
\*   fetch_failed : the latest ticker request gave no price
HistoryAfter(lookups, id, fetches, cg_price, now) ==
    [catalog_hits |-> history.catalog_hits
                        + (IF lookups = 1 /\ id # None THEN 1 ELSE 0),
     lookup_failed |-> lookups = 1 /\ id = None,
     fetched_ok |-> history.fetched_ok
                        \/ (fetches = 1 /\ cg_price \notin {None, Raised}),
     fetch_at |-> IF fetches = 1 THEN now ELSE history.fetch_at,
     fetch_failed |-> IF fetches = 1 THEN cg_price \in {None, Raised}
                      ELSE history.fetch_failed]

\* What one price call read, requested and returned.  clock_reads counts the
\* calls of time.time(); raised tells that the call ended with an exception.
OracleCall(op, now, id, due, lookups, tickers, ret, args) ==
    [op |-> op, now |-> now, clock_reads |-> 1,
     pre_id |-> _base_token_coingecko_id, pre_price |-> _last_cg_price,
     pre_time |-> _last_cg_price_time,
     pre_fetch_at |-> history.fetch_at, pre_lookup_failed |-> history.lookup_failed,
     pre_fetch_failed |-> history.fetch_failed,
     id |-> id, lookups |-> lookups, fetches |-> IF due THEN 1 ELSE 0,
     kind |-> tickers.kind, cg_price |-> tickers.cg_price,
     raised |-> tickers.cg_price = Raised, ret |-> ret, args |-> args]

(***************************************************************************)
(* pmm_simple_mexc.PMMSimpleController.get_executor_config                 *)
(***************************************************************************)
get_executor_config ==
    /\ prog = "pmm_simple_mexc"
    /\ \E level_id \in LevelIds, price \in ArgPrices, amount \in Amounts :
       \E catalog \in (IF lookup_due(_base_token_coingecko_id)
                       THEN CatalogLookups ELSE {NotLookedUp}) :
         LET trade_type == get_trade_type_from_level_id(level_id)
             now == clock
             lookups == IF lookup_due(_base_token_coingecko_id) THEN 1 ELSE 0
             id == resolved_id(_base_token_coingecko_id, catalog)
             due == /\ id # None
                    /\ is_refresh_due(_last_cg_price, _last_cg_price_time,
                                      now, _refresh_interval)
         IN \E tickers \in (IF due THEN TickerFetches ELSE {NotFetched}) :
              LET cg_price == tickers.cg_price
                  cache == IF due /\ cg_price # Raised
                           THEN updated_cache(_last_cg_price, _last_cg_price_time,
                                              cg_price, now)
                           ELSE <<_last_cg_price, _last_cg_price_time>>
                  entry_price == mexc_entry_price(id, due, cg_price, cache[1])
                  ret == IF cg_price = Raised THEN Raised
                         ELSE IF entry_price = None THEN None
                         ELSE PositionExecutorConfig(level_id, entry_price, amount,
                                                     trade_type)
              IN /\ _base_token_coingecko_id' = id
                 /\ _last_cg_price' = cache[1]
                 /\ _last_cg_price_time' = cache[2]
                 /\ last' = OracleCall("get_executor_config", now, id, due, lookups,
                                       tickers, ret, <<level_id, price, amount>>)
                 /\ history' = HistoryAfter(lookups, id, IF due THEN 1 ELSE 0,
                                            cg_price, now)
                 /\ UNCHANGED <<prog, clock, _refresh_interval, script_vars, balance_vars, config, thread_vars>>

(***************************************************************************)
(* coin_gecko_asset_price_delegate.CoinGeckoAssetPriceDelegate             *)
(***************************************************************************)
\* Mutant of ready_value: the delegate is ready once the symbol is resolved.
ready_when_resolved(last_cg_price) ==
    _base_token_coingecko_id # None

\* The value of the property ready.
ready_value(last_cg_price) ==
    last_cg_price # None

ready ==
    /\ prog = "coin_gecko_asset_price_delegate"
    /\ last' = [op |-> "ready", ret |-> ready_value(_last_cg_price)]
    /\ UNCHANGED <<prog, clock, oracle_vars, script_vars, balance_vars, config, thread_vars, history>>

c_get_mid_price ==
    /\ prog = "coin_gecko_asset_price_delegate"
    /\ \E catalog \in (IF lookup_due(_base_token_coingecko_id)
                       THEN CatalogLookups ELSE {NotLookedUp}) :
         LET now == clock
             lookups == IF lookup_due(_base_token_coingecko_id) THEN 1 ELSE 0
             id == resolved_id(_base_token_coingecko_id, catalog)
             due == /\ id # None
                    /\ is_refresh_due(_last_cg_price, _last_cg_price_time,
                                      now, _refresh_interval)
         IN \E tickers \in (IF due THEN TickerFetches ELSE {NotFetched}) :
              LET cg_price == tickers.cg_price
                  cache == IF due /\ cg_price # Raised
                           THEN updated_cache(_last_cg_price, _last_cg_price_time,
                                              cg_price, now)
                           ELSE <<_last_cg_price, _last_cg_price_time>>
                  ret == IF cg_price = Raised THEN Raised
                         ELSE c_get_mid_price_return(cache[1])
              IN /\ _base_token_coingecko_id' = id
                 /\ _last_cg_price' = cache[1]
                 /\ _last_cg_price_time' = cache[2]
                 /\ last' = OracleCall("c_get_mid_price", now, id, due, lookups,
                                       tickers, ret, <<>>)
                 /\ history' = HistoryAfter(lookups, id, IF due THEN 1 ELSE 0,
                                            cg_price, now)
                 /\ UNCHANGED <<prog, clock, _refresh_interval, script_vars, balance_vars, config, thread_vars>>

(***************************************************************************)
(* custom_coingecko_price_delegate.CoinGeckoPriceDelegate.get_price        *)
(* (base_token_id is a constructor argument: no catalog lookup)            *)
(***************************************************************************)
get_price ==
    /\ prog = "custom_coingecko_price_delegate"
    /\ LET now == clock
           due == is_refresh_due(_last_cg_price, _last_cg_price_time,
                                 now, _refresh_interval)
       IN \E tickers \in (IF due THEN DelegateFetches ELSE {NotFetched}) :
            LET price == tickers.cg_price
                cache == IF due
                         THEN updated_cache(_last_cg_price, _last_cg_price_time,
                                            price, now)
                         ELSE <<_last_cg_price, _last_cg_price_time>>
            IN /\ _last_cg_price' = cache[1]
               /\ _last_cg_price_time' = cache[2]
               /\ last' = OracleCall("get_price", now, _base_token_coingecko_id, due,
                                     0, tickers, cache[1], <<>>)
               /\ history' = HistoryAfter(0, _base_token_coingecko_id,
                                          IF due THEN 1 ELSE 0, price, now)
               /\ UNCHANGED <<prog, clock, _base_token_coingecko_id, _refresh_interval,
                            script_vars, balance_vars, config, thread_vars>>

(***************************************************************************)
(* pmm_simple_lbank.PMMSimpleController.get_executor_config (no cache)     *)
(***************************************************************************)
\* The entry price, or None where the handler returns None.
lbank_entry_price(id, cg_price) ==
    IF id = None THEN None
    ELSE IF cg_price # None THEN cg_price ELSE None

lbank_get_executor_config ==
    /\ prog = "pmm_simple_lbank"
    /\ \E level_id \in LevelIds, price \in ArgPrices, amount \in Amounts :
       \E catalog \in (IF lookup_due(_base_token_coingecko_id)
                       THEN CatalogLookups ELSE {NotLookedUp}) :
         LET trade_type == get_trade_type_from_level_id(level_id)
             lookups == IF lookup_due(_base_token_coingecko_id) THEN 1 ELSE 0
             id == resolved_id(_base_token_coingecko_id, catalog)
             due == id # None
         IN \E tickers \in (IF due THEN LbankTickerFetches ELSE {NotFetched}) :
              LET cg_price == tickers.cg_price
                  entry_price == lbank_entry_price(id, cg_price)
                  ret == IF cg_price = Raised THEN Raised
                         ELSE IF entry_price = None THEN None
                         ELSE PositionExecutorConfig(level_id, entry_price, amount,
                                                     trade_type)
              IN /\ _base_token_coingecko_id' = id
                 /\ last' = [OracleCall("lbank_get_executor_config", clock, id, due,
                                        lookups, tickers, ret,
                                        <<level_id, price, amount>>)
                             EXCEPT !.clock_reads = 0]
                 /\ history' = HistoryAfter(lookups, id, IF due THEN 1 ELSE 0,
                                            cg_price, clock)
                 /\ UNCHANGED <<prog, clock, _last_cg_price, _last_cg_price_time,
                                _refresh_interval, script_vars, balance_vars, config, thread_vars>>

(***************************************************************************)
(* scripts/simple_pmm_cg.SimplePMMCMC                                      *)
(***************************************************************************)
\* The script's get_coingecko_id has no try/except: a request error is raised
\* to the caller.
script_get_coingecko_id(response, symbol) ==
    IF response.status # "ok" THEN [raised |-> TRUE, id |-> None]
    ELSE [raised |-> FALSE, id |-> get_coingecko_id(response, symbol)]

ScriptCatalogLookups ==
    { script_get_coingecko_id(r, base_token) : r \in CatalogResponses }

\* A price in thousandths, the unit in which ref_price * (1 -+ spread) is exact.
Milli(n) == [tag |-> "Decimal/1000", v |-> n]

OrderCandidate(order_side, amount, price) ==
    [order_side |-> order_side, amount |-> amount, price |-> price]

\* Mutant of create_proposal: a missing reference price is replaced by zero.
create_proposal_zero_default(ref_price) ==
    LET p == IF ref_price = None THEN 0 ELSE ref_price.v
    IN << OrderCandidate("BUY", order_amount, Milli(p * (1000 - bid_spread))),
          OrderCandidate("SELL", order_amount, Milli(p * (1000 + ask_spread))) >>

\* Mutant of create_proposal: the quotes are rounded down to whole units.
create_proposal_rounded(ref_price) ==
    IF ref_price = None THEN <<>>
    ELSE LET buy_price == Milli(((ref_price.v * (1000 - bid_spread)) \div 1000) * 1000)
             sell_price == Milli(((ref_price.v * (1000 + ask_spread)) \div 1000) * 1000)
         IN << OrderCandidate("BUY", order_amount, buy_price),
               OrderCandidate("SELL", order_amount, sell_price) >>

\* create_proposal, given what the ticker fetch returned.
create_proposal(ref_price) ==
    IF ref_price = None THEN <<>>
    ELSE LET buy_price == Milli(ref_price.v * (1000 - bid_spread))
             sell_price == Milli(ref_price.v * (1000 + ask_spread))
         IN << OrderCandidate("BUY", order_amount, buy_price),
               OrderCandidate("SELL", order_amount, sell_price) >>

\* adjust_proposal_to_budget: the budget checker keeps the candidates the
\* balances can pay for (affordable: the indices it keeps), in order.
adjust_proposal_to_budget(proposal, affordable) ==
    SelectSeq(proposal, LAMBDA o : o.order_side \in affordable)

init_markets ==
    /\ prog = "simple_pmm_cg"
    /\ phase = "new"
    /\ \E r \in ScriptCatalogLookups :
         /\ phase' = IF r.raised THEN "failed" ELSE "running"
         /\ _base_token_coingecko_id' = r.id
         /\ last' = [op |-> "init_markets", lookups |-> 1, raised |-> r.raised, id |-> r.id]
         /\ history' = HistoryAfter(1, r.id, 0, None, clock)
    /\ UNCHANGED <<prog, clock, _last_cg_price, _last_cg_price_time, _refresh_interval,
                   order_refresh_time, create_timestamp, active_orders, balance_vars, config, thread_vars>>

\* Mutant of on_tick: the tick does not test the identifier before the
\* refresh.
on_tick_without_id_check ==
    /\ prog = "simple_pmm_cg"
    /\ phase = "running"
    /\ LET current_timestamp == clock
           refresh == create_timestamp <= current_timestamp
       IN \E tickers \in (IF refresh THEN TickerFetches ELSE {NotFetched}),
             affordable \in (IF refresh THEN SUBSET {"BUY", "SELL"} ELSE {{}}) :
            LET ref_price == tickers.cg_price
                \* create_proposal raised: on_tick ends after cancel_all_orders
                raised == ref_price = Raised
                proposal == IF refresh /\ ~raised THEN create_proposal(ref_price)
                            ELSE <<>>
                proposal_adjusted == adjust_proposal_to_budget(proposal, affordable)
            IN /\ active_orders' =
                    IF refresh
                    THEN {proposal_adjusted[i] : i \in 1..Len(proposal_adjusted)}
                    ELSE active_orders
               /\ create_timestamp' =
                    IF refresh /\ ~raised THEN order_refresh_time + current_timestamp
                    ELSE create_timestamp
               /\ last' = [op |-> "on_tick", now |-> current_timestamp,
                           pre_id |-> _base_token_coingecko_id,
                           id |-> _base_token_coingecko_id,
                           pre_create_timestamp |-> create_timestamp,
                           pre_fetch_at |-> history.fetch_at,
                           pre_lookup_failed |-> history.lookup_failed,
                           pre_fetch_failed |-> history.fetch_failed,
                           refresh |-> refresh,
                           cancelled |-> IF refresh THEN active_orders ELSE {},
                           lookups |-> 0, fetches |-> IF refresh THEN 1 ELSE 0,
                           kind |-> tickers.kind, cg_price |-> ref_price,
                           raised |-> raised,
                           proposal |-> proposal,
                           placed |-> proposal_adjusted]
               /\ history' = [HistoryAfter(0, _base_token_coingecko_id,
                                           IF refresh THEN 1 ELSE 0, ref_price,
                                           current_timestamp)
                              EXCEPT !.lookup_failed = history.lookup_failed]
    /\ UNCHANGED <<prog, clock, oracle_vars, phase, order_refresh_time, balance_vars, config, thread_vars>>

\* SimplePMMCMC.on_tick
on_tick ==
    /\ prog = "simple_pmm_cg"
    /\ phase = "running"
    /\ LET current_timestamp == clock
           refresh == /\ _base_token_coingecko_id # None
                      /\ create_timestamp <= current_timestamp
       IN \E tickers \in (IF refresh THEN TickerFetches ELSE {NotFetched}),
             affordable \in (IF refresh THEN SUBSET {"BUY", "SELL"} ELSE {{}}) :
            LET ref_price == tickers.cg_price
                \* create_proposal raised: on_tick ends after cancel_all_orders
                raised == ref_price = Raised
                proposal == IF refresh /\ ~raised THEN create_proposal(ref_price)
                            ELSE <<>>
                proposal_adjusted == adjust_proposal_to_budget(proposal, affordable)
            IN /\ active_orders' =
                    IF refresh
                    THEN {proposal_adjusted[i] : i \in 1..Len(proposal_adjusted)}
                    ELSE active_orders
               /\ create_timestamp' =
                    IF refresh /\ ~raised THEN order_refresh_time + current_timestamp
                    ELSE create_timestamp
               /\ last' = [op |-> "on_tick", now |-> current_timestamp,
                           pre_id |-> _base_token_coingecko_id,
                           id |-> _base_token_coingecko_id,
                           pre_create_timestamp |-> create_timestamp,
                           pre_fetch_at |-> history.fetch_at,
                           pre_lookup_failed |-> history.lookup_failed,
                           pre_fetch_failed |-> history.fetch_failed,
                           refresh |-> refresh,
                           cancelled |-> IF refresh THEN active_orders ELSE {},
                           lookups |-> 0, fetches |-> IF refresh THEN 1 ELSE 0,
                           kind |-> tickers.kind, cg_price |-> ref_price,
                           raised |-> raised,
                           proposal |-> proposal,
                           placed |-> proposal_adjusted]
               /\ history' = [HistoryAfter(0, _base_token_coingecko_id,
                                           IF refresh THEN 1 ELSE 0, ref_price,
                                           current_timestamp)
                              EXCEPT !.lookup_failed = history.lookup_failed]
    /\ UNCHANGED <<prog, clock, oracle_vars, phase, order_refresh_time, balance_vars, config, thread_vars>>

(***************************************************************************)
(* scripts/simple_pmm_random.SimplePMMRandom                               *)
(***************************************************************************)
\* SimplePMMRandomConfig: the amounts' range, and the spreads in thousandths
\* (Decimal(1 - 0.001) is taken for 0.999: the binary rounding of the float,
\* below 1e-16, is left out).
min_order_amount == 22000
max_order_amount == 44000
random_bid_spread == 1
random_ask_spread == 1

\* connector.get_price_by_type(trading_pair, price_source)
RefPrices == {Decimal(1), Decimal(MaxPrice)}

\* connector.get_available_balance(quote) and (base)
QuoteBalances == {Decimal(0), Decimal(30000 * MaxPrice)}
BaseBalances == {Decimal(0), Decimal(40000)}

\* Mutant of RandomAmounts: the amount is drawn from zero up to the maximum.
RandomAmountsFromZero ==
    {Decimal(0), Decimal(max_order_amount)}

\* Decimal(str(random.uniform(float(min_order_amount), float(max_order_amount)))):
\* the two ends of the range and a value inside it.
RandomAmounts ==
    {Decimal(min_order_amount), Decimal((min_order_amount + max_order_amount) \div 2),
     Decimal(max_order_amount)}

\* Mutant of RandomRefreshTimes: the first delay that is not below the range.
RandomRefreshTimesPastMax(min_time, max_time) ==
    min_time..(max_time + 1)

\* random.randint(min_order_refresh_time, max_order_refresh_time): both ends
\* belong to the range.
RandomRefreshTimes(min_time, max_time) ==
    min_time..max_time

\* Mutant of random_create_proposal: the two sides draw their amounts apart
\* (the sell takes the maximum).
random_create_proposal_two_draws(ref_price, random_amount) ==
    << OrderCandidate("BUY", random_amount,
                      Milli(ref_price.v * (1000 - random_bid_spread))),
       OrderCandidate("SELL", Decimal(max_order_amount),
                      Milli(ref_price.v * (1000 + random_ask_spread))) >>

\* SimplePMMRandom.create_proposal, given the reference price and the amount
\* drawn.
random_create_proposal(ref_price, random_amount) ==
    LET buy_price == Milli(ref_price.v * (1000 - random_bid_spread))
        sell_price == Milli(ref_price.v * (1000 + random_ask_spread))
    IN << OrderCandidate("BUY", random_amount, buy_price),
          OrderCandidate("SELL", random_amount, sell_price) >>

\* The budget checker's verdicts that the balances allow: it never keeps a
\* candidate the available balance cannot pay for (it may decline one the
\* bare balance would pay for: fees, collateral already locked).
BudgetVerdicts(proposal, quote_balance, base_balance) ==
    { affordable \in SUBSET {proposal[i].order_side : i \in 1..Len(proposal)} :
        \A i \in 1..Len(proposal) :
            proposal[i].order_side \in affordable
                => IF proposal[i].order_side = "BUY"
                   THEN quote_balance.v * 1000 >= proposal[i].amount.v * proposal[i].price.v
                   ELSE base_balance.v >= proposal[i].amount.v }

\* budget_checker.adjust_candidates(proposal, all_or_none=True): the list keeps
\* its length and its order; a candidate the balance cannot pay for is set to
\* size zero.
adjust_candidates(proposal, affordable) ==
    [i \in 1..Len(proposal) |->
        IF proposal[i].order_side \in affordable THEN proposal[i]
        ELSE [proposal[i] EXCEPT !.amount = Decimal(0)]]

\* SimplePMMRandom.can_place_both_orders
can_place_both_orders(proposal, quote_balance, base_balance) ==
    IF Len(proposal) # 2 THEN FALSE
    ELSE LET buys == {i \in 1..Len(proposal) : proposal[i].order_side = "BUY"}
             sells == {i \in 1..Len(proposal) : proposal[i].order_side = "SELL"}
             buy_short ==
                 /\ buys # {}
                 /\ quote_balance.v * 1000
                        < proposal[Min(buys)].amount.v * proposal[Min(buys)].price.v
             sell_short ==
                 /\ sells # {}
                 /\ base_balance.v < proposal[Min(sells)].amount.v
         IN ~buy_short /\ ~sell_short

\* The inputs of a tick that does not refresh.
NoRefreshInput ==
    [ref_price |-> None, random_amount |-> Decimal(0), quote_balance |-> Decimal(0),
     base_balance |-> Decimal(0), random_refresh_time |-> 0]

RefreshInputs ==
    [ref_price : RefPrices, random_amount : RandomAmounts,
     quote_balance : QuoteBalances, base_balance : BaseBalances,
     random_refresh_time : RandomRefreshTimes(config.min_order_refresh_time,
                                              config.max_order_refresh_time)]

\* SimplePMMRandom.on_tick.  place_orders calls buy / sell once per candidate
\* of the adjusted proposal; a call of size zero puts no order on the exchange.
random_on_tick ==
    /\ prog = "simple_pmm_random"
    /\ LET current_timestamp == clock
           refresh == create_timestamp <= current_timestamp
       IN \E in \in (IF refresh THEN RefreshInputs ELSE {NoRefreshInput}) :
            LET proposal == IF refresh
                            THEN random_create_proposal(in.ref_price, in.random_amount)
                            ELSE <<>>
            IN \E affordable \in BudgetVerdicts(proposal, in.quote_balance,
                                                in.base_balance) :
                 LET proposal_adjusted == adjust_candidates(proposal, affordable)
                     can_place == /\ refresh
                                  /\ can_place_both_orders(proposal_adjusted,
                                                           in.quote_balance,
                                                           in.base_balance)
                     placed == IF can_place THEN proposal_adjusted ELSE <<>>
                 IN /\ active_orders' =
                         IF refresh
                         THEN {placed[i] : i \in {j \in 1..Len(placed) :
                                                     placed[j].amount.v > 0}}
                         ELSE active_orders
                    /\ create_timestamp' =
                         IF refresh THEN in.random_refresh_time + current_timestamp
                         ELSE create_timestamp
                    /\ last' = [op |-> "random_on_tick", now |-> current_timestamp,
                                pre_create_timestamp |-> create_timestamp,
                                refresh |-> refresh,
                                ref_price |-> in.ref_price,
                                random_amount |-> in.random_amount,
                                random_refresh_time |-> in.random_refresh_time,
                                proposal |-> proposal,
                                proposal_adjusted |-> proposal_adjusted,
                                can_place |-> can_place,
                                placed |-> placed]
    /\ UNCHANGED <<prog, clock, oracle_vars, phase, order_refresh_time, balance_vars,
                   config, thread_vars, history>>

(***************************************************************************)
(* lbank_balance_manager: LBankClient and BalanceManager                   *)
(***************************************************************************)
\* v2/supplement/user_info.do: the account's assets.
AccountAssets ==
    { [coin |-> c, usableAmt |-> b, assetAmt |-> b, freezeAmt |-> 0] :
        c \in {"MNTL", "usdt"}, b \in 0..MaxBalance }

AccountResponses ==
    {RequestException} \cup
    {[status |-> "ok", data |-> d] : d \in {<<>>} \cup {<<a>> : a \in AccountAssets}}

\* v2/supplement/ticker/price.do: the pairs' prices.
PairPrices ==
    { [symbol |-> y, price |-> p] : y \in {"mntl_usdt", "btc_usdt"}, p \in 0..MaxPrice }

PriceResponses ==
    {RequestException} \cup
    {[status |-> "ok", data |-> d] : d \in {<<>>} \cup {<<a>> : a \in PairPrices}}

\* Which branch of the balance read an answer takes, for token.
BalanceKind(response, token) ==
    IF response.status # "ok" THEN "request_error"
    ELSE IF \E i \in 1..Len(response.data) :
                Lower(response.data[i].coin) = Lower(token)
    THEN "listed" ELSE "not_listed"

\* The balance record of a request that raised: there is none.
NoBalanceInfo == [usable |-> 0, total |-> 0, frozen |-> 0]

\* LBankClient.get_token_details / get_token_balance on an answer that
\* arrived: the amounts of the first asset whose coin matches ignoring case,
\* and '0' for each amount when the asset is not listed (the amounts are
\* numerals: 0 stands for '0').
get_token_balance(response, token) ==
    LET data == response.data
        hits == {i \in 1..Len(data) : Lower(data[i].coin) = Lower(token)}
    IN IF hits = {} THEN [usable |-> 0, total |-> 0, frozen |-> 0]
       ELSE [usable |-> data[Min(hits)].usableAmt,
             total |-> data[Min(hits)].assetAmt,
             frozen |-> data[Min(hits)].freezeAmt]

\* Mutant of get_current_balance: an asset missing from the listing is an
\* error.
get_current_balance_strict(response, token) ==
    IF response.status # "ok" THEN [raised |-> TRUE, value |-> 0]
    ELSE IF BalanceKind(response, token) = "not_listed"
    THEN [raised |-> TRUE, value |-> 0]
    ELSE [raised |-> FALSE, value |-> get_token_balance(response, token).usable]

\* get_current_balance: float(balance_info['usable']), the usable amount of
\* the asset, 0 when the asset is not listed.  <<raised, balance>>.
get_current_balance(response, token) ==
    IF response.status # "ok" THEN [raised |-> TRUE, value |-> 0]
    ELSE [raised |-> FALSE, value |-> get_token_balance(response, token).usable]

\* Which branch of get_current_price an answer takes, for pair.
PriceKind(response, pair) ==
    IF response.status # "ok" THEN "request_error"
    ELSE IF \E i \in 1..Len(response.data) : response.data[i].symbol = pair
    THEN "priced" ELSE "no_pair"

\* Mutant of get_current_price: a pair missing from the answer reads as
\* price 0.
get_current_price_zero_default(response, pair) ==
    IF response.status # "ok" THEN [raised |-> TRUE, value |-> 0]
    ELSE LET data == response.data
             hits == {i \in 1..Len(data) : data[i].symbol = pair}
         IN IF hits = {} THEN [raised |-> FALSE, value |-> 0]
            ELSE [raised |-> FALSE, value |-> data[Min(hits)].price]

\* get_current_price: the price of the first pair whose symbol is the trading
\* pair; raises when there is none.  <<raised, price>>.
get_current_price(response, pair) ==
    IF response.status # "ok" THEN [raised |-> TRUE, value |-> 0]
    ELSE LET data == response.data
             hits == {i \in 1..Len(data) : data[i].symbol = pair}
         IN IF hits = {} THEN [raised |-> TRUE, value |-> 0]
            ELSE [raised |-> FALSE, value |-> data[Min(hits)].price]

BalanceReads ==
    { [kind |-> BalanceKind(r, balance_base_token),
       balance_info |-> IF r.status = "ok"
                        THEN get_token_balance(r, balance_base_token)
                        ELSE NoBalanceInfo,
       raised |-> get_current_balance(r, balance_base_token).raised,
       value |-> get_current_balance(r, balance_base_token).value] :
        r \in AccountResponses }

PriceReads ==
    { [kind |-> PriceKind(r, trading_pair),
       raised |-> get_current_price(r, trading_pair).raised,
       value |-> get_current_price(r, trading_pair).value] : r \in PriceResponses }

NotRead == [kind |-> "not requested", raised |-> TRUE, value |-> 0]

\* Mutants of adjust_balance_orders: the buy sized in base units; thresholds
\* that exclude the boundary; no dead-band.
adjust_balance_orders_buy_in_base(current_balance, current_price, target, min_diff) ==
    IF current_balance < target /\ target - current_balance >= min_diff
    THEN << [type |-> "buy_market", amount |-> target - current_balance] >>
    ELSE IF current_balance > target /\ current_balance - target >= min_diff
    THEN << [type |-> "sell_market", amount |-> current_balance - target] >>
    ELSE <<>>

adjust_balance_orders_strict(current_balance, current_price, target, min_diff) ==
    IF current_balance < target /\ target - current_balance > min_diff
    THEN << [type |-> "buy_market",
             amount |-> (target - current_balance) * current_price] >>
    ELSE IF current_balance > target /\ current_balance - target > min_diff
    THEN << [type |-> "sell_market", amount |-> current_balance - target] >>
    ELSE <<>>

adjust_balance_orders_no_dead_band(current_balance, current_price, target, min_diff) ==
    IF current_balance < target
    THEN << [type |-> "buy_market",
             amount |-> (target - current_balance) * current_price] >>
    ELSE IF current_balance > target
    THEN << [type |-> "sell_market", amount |-> current_balance - target] >>
    ELSE <<>>

\* Mutant of adjust_balance_orders: the decision is taken on the balance the
\* previous evaluation read.
adjust_balance_orders_on_previous_read(current_balance, current_price, target, min_diff) ==
    LET balance == IF last.op = "adjust_balance" /\ ~last.read_failed
                   THEN last.current_balance ELSE current_balance
    IN IF balance < target /\ target - balance >= min_diff
       THEN << [type |-> "buy_market", amount |-> (target - balance) * current_price] >>
       ELSE IF balance > target /\ balance - target >= min_diff
       THEN << [type |-> "sell_market", amount |-> balance - target] >>
       ELSE <<>>

\* Mutant of adjust_balance_orders: the order is doubled after a submission
\* that failed (a hidden retry state).
adjust_balance_orders_escalating(current_balance, current_price, target, min_diff) ==
    LET factor == IF last.op = "adjust_balance" /\ last.submitted = "error"
                  THEN 2 ELSE 1
    IN IF current_balance < target /\ target - current_balance >= min_diff
       THEN << [type |-> "buy_market",
                amount |-> factor * (target - current_balance) * current_price] >>
       ELSE IF current_balance > target /\ current_balance - target >= min_diff
       THEN << [type |-> "sell_market",
                amount |-> factor * (current_balance - target)] >>
       ELSE <<>>

\* Mutant of adjust_balance_orders: the sell branch is an "if" on the size of
\* the difference instead of an "elif" on its sign.
adjust_balance_orders_both_sides(current_balance, current_price, target, min_diff) ==
    LET gap == IF current_balance < target THEN target - current_balance
               ELSE current_balance - target
    IN (IF current_balance < target /\ gap >= min_diff
        THEN << [type |-> "buy_market", amount |-> gap * current_price] >>
        ELSE <<>>)
       \o (IF current_balance # target /\ gap >= min_diff
           THEN << [type |-> "sell_market", amount |-> gap] >>
           ELSE <<>>)

\* The body of adjust_balance after both reads: the market orders it submits.
adjust_balance_orders(current_balance, current_price, target, min_diff) ==
    IF current_balance < target
    THEN LET difference == target - current_balance
         IN IF difference >= min_diff
            THEN << [type |-> "buy_market", amount |-> difference * current_price] >>
            ELSE <<>>
    ELSE IF current_balance > target
    THEN LET difference == current_balance - target
         IN IF difference >= min_diff
            THEN << [type |-> "sell_market", amount |-> difference] >>
            ELSE <<>>
    ELSE <<>>

\* Mutant of order_requests: a submission that failed is sent again.
order_requests_with_retry(orders, submitted) ==
    IF submitted = "error" THEN orders \o orders ELSE orders

\* The create_order requests one evaluation sends: execute_market_order is
\* called once for the order decided, and its exception ends the evaluation.
order_requests(orders, submitted) ==
    orders

\* The calls one evaluation makes, in order.
adjust_balance_steps(balance_raised, price_raised, requests) ==
    <<"get_current_balance">>
        \o (IF balance_raised THEN <<>> ELSE <<"get_current_price">>)
        \o (IF balance_raised \/ price_raised THEN <<>> ELSE <<"decide">>)
        \o [i \in 1..Len(requests) |-> "execute_market_order"]

adjust_balance ==
    /\ prog = "lbank_balance_manager"
    /\ \E b \in BalanceReads :
       \E p \in (IF b.raised THEN {NotRead} ELSE PriceReads) :
         LET orders == IF b.raised \/ p.raised THEN <<>>
                       ELSE adjust_balance_orders(b.value, p.value, target_balance,
                                                  min_difference)
         IN \E submitted \in (IF orders = <<>> THEN {"none"} ELSE {"ok", "error"}) :
              LET requests == order_requests(orders, submitted)
              IN last' = [op |-> "adjust_balance",
                          prior_submitted |-> IF last.op = "adjust_balance"
                                              THEN last.submitted ELSE "none",
                          \* the most recent earlier evaluation that read both values
                          prior |-> IF last.op # "adjust_balance"
                                    THEN [evaluated |-> FALSE, current_balance |-> 0,
                                          current_price |-> 0, orders |-> <<>>]
                                    ELSE IF last.read_failed THEN last.prior
                                    ELSE [evaluated |-> TRUE,
                                          current_balance |-> last.current_balance,
                                          current_price |-> last.current_price,
                                          orders |-> last.orders],
                          balance_reads |-> 1,
                          price_reads |-> IF b.raised THEN 0 ELSE 1,
                          price_kind |-> p.kind,
                          balance_kind |-> b.kind,
                          balance_info |-> b.balance_info,
                          read_failed |-> b.raised \/ p.raised,
                          current_balance |-> b.value, current_price |-> p.value,
                          orders |-> orders, submitted |-> submitted,
                          requests |-> requests,
                          steps |-> adjust_balance_steps(b.raised, p.raised, requests),
                          raised |-> FALSE]
    /\ UNCHANGED <<prog, clock, oracle_vars, script_vars, balance_vars, config, thread_vars, history>>

(***************************************************************************)
(* The CoinGecko utility functions of pmm_simple_mexc, called directly.    *)
(* The functions keep no state: one call per behaviour shows every result. *)
(***************************************************************************)
call_get_coingecko_id ==
    /\ prog = "coingecko_utilities"
    /\ last.op = "init"
    /\ \E symbol \in Symbols, response \in CatalogResponses :
         last' = [op |-> "get_coingecko_id", symbol |-> symbol,
                  response |-> response,
                  ret |-> get_coingecko_id(response, symbol)]
    /\ UNCHANGED <<prog, clock, oracle_vars, script_vars, balance_vars, config, thread_vars, history>>

call_get_price_from_specific_market_coingecko ==
    /\ prog = "coingecko_utilities"
    /\ last.op = "init"
    /\ \E quote_market_identifier \in Markets, response \in TickerResponses :
         last' = [op |-> "get_price_from_specific_market_coingecko",
                  quote_market_identifier |-> quote_market_identifier,
                  response |-> response,
                  ret |-> get_price_from_specific_market_coingecko(
                              response, quote_market_identifier)]
    /\ UNCHANGED <<prog, clock, oracle_vars, script_vars, balance_vars, config, thread_vars, history>>

(***************************************************************************)
(* One caching oracle shared by two threads.  The price call of the first  *)
(* thread is executed statement by statement: the ticker request blocks,   *)
(* and the two fields of the cache are assigned by two statements.  The    *)
(* second thread reads the cached reading at any moment, as the freshness  *)
(* test of its own price call does.  The three caching classes share the   *)
(* statements modelled here:                                               *)
(*   pmm_simple_mexc.get_executor_config                    lines 72-89    *)
(*   coin_gecko_asset_price_delegate.c_get_mid_price        lines 38-52    *)
(*   custom_coingecko_price_delegate.get_price              lines 14-27    *)
(***************************************************************************)
SharedPrograms ==
    {"shared_pmm_simple_mexc", "shared_coin_gecko_asset_price_delegate",
     "shared_custom_coingecko_price_delegate"}

\* No price call in progress yet.
NoCall == [now |-> 0, pre_price |-> None, pre_time |-> 0, cg_price |-> None]

\* The call reads the clock, resolves the symbol if needed and evaluates the
\* freshness test; when a refresh is due it sends the ticker request and blocks.
price_call_begins ==
    /\ prog \in SharedPrograms
    /\ pc = "idle"
    /\ \E catalog \in (IF lookup_due(_base_token_coingecko_id)
                       THEN CatalogLookups ELSE {NotLookedUp}) :
         LET now == clock
             id == resolved_id(_base_token_coingecko_id, catalog)
             due == /\ id # None
                    /\ is_refresh_due(_last_cg_price, _last_cg_price_time,
                                      now, _refresh_interval)
         IN /\ _base_token_coingecko_id' = id
            /\ pc' = IF due THEN "fetching" ELSE "idle"
            /\ call' = [now |-> now, pre_price |-> _last_cg_price,
                        pre_time |-> _last_cg_price_time, cg_price |-> None]
            /\ last' = [op |-> "price_call_begins", now |-> now,
                        fetches |-> IF due THEN 1 ELSE 0]
    /\ UNCHANGED <<prog, clock, _last_cg_price, _last_cg_price_time, _refresh_interval,
                   script_vars, balance_vars, config, history>>

\* The ticker request returns and the answer is parsed.  Without a price (or
\* with an exception) the call ends without an assignment.
ticker_fetch_returns ==
    /\ prog \in SharedPrograms
    /\ pc = "fetching"
    /\ \E tickers \in (IF prog = "shared_custom_coingecko_price_delegate"
                       THEN DelegateFetches ELSE TickerFetches) :
         /\ call' = [call EXCEPT !.cg_price = tickers.cg_price]
         /\ pc' = IF tickers.cg_price \in {None, Raised} THEN "idle" ELSE "fetched"
         /\ last' = [op |-> "ticker_fetch_returns", kind |-> tickers.kind,
                     cg_price |-> tickers.cg_price]
    /\ UNCHANGED <<prog, clock, oracle_vars, script_vars, balance_vars, config, history>>

\* "self._last_cg_price = cg_price"
write_last_cg_price ==
    /\ prog \in SharedPrograms
    /\ pc = "fetched"
    /\ _last_cg_price' = call.cg_price
    /\ pc' = "price_written"
    /\ last' = [op |-> "write_last_cg_price"]
    /\ UNCHANGED <<prog, clock, _base_token_coingecko_id, _last_cg_price_time,
                   _refresh_interval, script_vars, balance_vars, config, call, history>>

\* "self._last_cg_price_time = now"
write_last_cg_price_time ==
    /\ prog \in SharedPrograms
    /\ pc = "price_written"
    /\ _last_cg_price_time' = call.now
    /\ pc' = "idle"
    /\ last' = [op |-> "write_last_cg_price_time"]
    /\ UNCHANGED <<prog, clock, _base_token_coingecko_id, _last_cg_price,
                   _refresh_interval, script_vars, balance_vars, config, call, history>>

\* Mutant of fetch_cancelled: the abandoned call stamps the cache on its way
\* out (a "finally: self._last_cg_price_time = now").
fetch_cancelled_stamps_time ==
    /\ prog \in SharedPrograms
    /\ pc = "fetching"
    /\ pc' = "idle"
    /\ _last_cg_price_time' = call.now
    /\ last' = [op |-> "fetch_cancelled", now |-> call.now,
                pre_price |-> call.pre_price, pre_time |-> call.pre_time]
    /\ UNCHANGED <<prog, clock, _base_token_coingecko_id, _last_cg_price,
                   _refresh_interval, script_vars, balance_vars, config, call, history>>

\* The host cancels the call while the ticker request is in flight: the
\* blocking request ends with the cancellation (KeyboardInterrupt, SystemExit,
\* a timeout the host applies) and the statements after it are not executed.
fetch_cancelled ==
    /\ prog \in SharedPrograms
    /\ pc = "fetching"
    /\ pc' = "idle"
    /\ last' = [op |-> "fetch_cancelled", now |-> call.now,
                pre_price |-> call.pre_price, pre_time |-> call.pre_time]
    /\ UNCHANGED <<prog, clock, oracle_vars, script_vars, balance_vars, config, call, history>>

\* The second thread reads the cached reading: the two fields the freshness
\* test "self._last_cg_price is None or now - self._last_cg_price_time > ..."
\* of its own price call reads.
concurrent_read ==
    /\ prog \in SharedPrograms
    /\ last' = [op |-> "concurrent_read", now |-> clock,
                price |-> _last_cg_price, time |-> _last_cg_price_time,
                pc |-> pc, call |-> call]
    /\ UNCHANGED <<prog, clock, oracle_vars, script_vars, balance_vars, config, thread_vars,
                   history>>

(***************************************************************************)
(* The host: time passes between handler invocations.  The balance manager *)
(* and the utility functions never read the clock.                         *)
(***************************************************************************)
ClockPrograms ==
    {"pmm_simple_mexc", "pmm_simple_lbank", "coin_gecko_asset_price_delegate",
     "custom_coingecko_price_delegate", "simple_pmm_cg", "simple_pmm_random"}
        \cup SharedPrograms

Tick ==
    /\ prog \in ClockPrograms
    /\ clock < MaxTime
    /\ clock' = clock + 1
    /\ UNCHANGED <<prog, oracle_vars, script_vars, balance_vars, config, thread_vars, last, history>>

(***************************************************************************)
(* The state after construction.                                           *)
(***************************************************************************)
Init ==
    /\ prog \in Programs \cup SharedPrograms
    /\ clock = 1
    /\ _base_token_coingecko_id =
         IF prog \in {"custom_coingecko_price_delegate",
                      "shared_custom_coingecko_price_delegate"}
         THEN Str("assetmantle") ELSE None
    /\ _last_cg_price = None
    /\ _last_cg_price_time = 0
    /\ _refresh_interval \in
         IF prog \in {"pmm_simple_mexc", "coin_gecko_asset_price_delegate",
                      "custom_coingecko_price_delegate"} \cup SharedPrograms
         THEN 1..MaxInterval ELSE {0}
    /\ phase = IF prog = "simple_pmm_cg" THEN "new" ELSE "running"
    /\ order_refresh_time \in IF prog = "simple_pmm_cg" THEN 1..MaxInterval ELSE {0}
    /\ create_timestamp = 0
    /\ active_orders = {}
    \* min_difference is positive: the host validates the configuration.
    /\ target_balance \in IF prog = "lbank_balance_manager" THEN 0..MaxBalance ELSE {0}
    /\ min_difference \in IF prog = "lbank_balance_manager" THEN 1..MaxBalance ELSE {0}
    /\ config \in IF prog = "simple_pmm_random"
                   THEN {c \in [min_order_refresh_time : 1..MaxInterval,
                                max_order_refresh_time : 1..(MaxInterval + 1)] :
                            c.min_order_refresh_time <= c.max_order_refresh_time}
                   ELSE {[min_order_refresh_time |-> 0, max_order_refresh_time |-> 0]}
    /\ pc = "idle"
    /\ call = NoCall
    /\ last = [op |-> "init"]
    /\ history = [catalog_hits |-> 0, lookup_failed |-> FALSE,
                  fetched_ok |-> FALSE, fetch_at |-> 0, fetch_failed |-> FALSE]

Next ==
    \/ get_executor_config
    \/ lbank_get_executor_config
    \/ init_markets
    \/ on_tick
    \/ random_on_tick
    \/ adjust_balance
    \/ ready
    \/ c_get_mid_price
    \/ get_price
    \/ call_get_coingecko_id
    \/ call_get_price_from_specific_market_coingecko
    \/ price_call_begins
    \/ ticker_fetch_returns
    \/ write_last_cg_price
    \/ write_last_cg_price_time
    \/ fetch_cancelled
    \/ concurrent_read
    \/ Tick

Spec == Init /\ [][Next]_vars

(***************************************************************************)
(* The caching oracles under their host's polling loop.  The host calls    *)
(* the price handler on every cycle (the executor orchestrator calls        *)
(* get_executor_config for each level it has to fill, the strategy reads    *)
(* the delegate's mid price on each tick), so a handler that can make       *)
(* progress is eventually called again: weak fairness of each price call.  *)
(* Nothing is assumed of the provider's answers or of the clock.            *)
(***************************************************************************)
CachingOracles ==
    {"pmm_simple_mexc", "coin_gecko_asset_price_delegate",
     "custom_coingecko_price_delegate"}

LiveInit == Init /\ prog \in CachingOracles

LiveNext ==
    \/ get_executor_config
    \/ ready
    \/ c_get_mid_price
    \/ get_price
    \/ Tick

LiveSpec ==
    /\ LiveInit
    /\ [][LiveNext]_vars
    /\ WF_vars(get_executor_config)
    /\ WF_vars(c_get_mid_price)
    /\ WF_vars(get_price)

(***************************************************************************)
(* Properties.                                                             *)
(***************************************************************************)
\* The last handler invocation was a price call of a caching oracle.
CachingCall == last.op \in {"get_executor_config", "c_get_mid_price", "get_price"}

ControllerCall == last.op \in {"get_executor_config", "lbank_get_executor_config"}

\* The price the last price call handed to its caller (None: no price, no
\* executor configuration, or an exception instead of a value).
ReturnedPrice ==
    IF last.raised THEN None
    ELSE IF ControllerCall
    THEN IF last.ret = None THEN None ELSE last.ret.entry_price
    ELSE last.ret

\* The age of the cached reading as the last price call saw it.
Age == last.now - last.pre_time

\* The last price call issued a ticker fetch and the fetch returned no price.
FetchFailed == last.fetches = 1 /\ last.cg_price = None

\* The last price call issued a ticker fetch that returned no price or raised.
FetchGaveNoPrice == last.fetches = 1 /\ last.cg_price \in {None, Raised}

PositiveFinite(price) == price.tag = "Decimal" /\ price.v > 0

\* C1: after a successful fetch, every price call made while the cached
\* reading's age is strictly less than the TTL returns the identical cached
\* value and issues no network request (no catalog lookup, no ticker fetch),
\* and leaves the cache as it was.
C1_FreshReadingServedWithoutRequest ==
    (CachingCall /\ last.pre_price # None /\ Age < _refresh_interval)
        => /\ ReturnedPrice = last.pre_price
           /\ last.fetches = 0
           /\ last.lookups = 0
           /\ _last_cg_price = last.pre_price
           /\ _last_cg_price_time = last.pre_time

\* C1 witness: a call one time unit after the fetch, inside a longer TTL, is
\* answered from the cache.
C1_Witness ==
    /\ CachingCall /\ last.pre_price # None
    /\ Age = 1 /\ Age < _refresh_interval
    /\ last.fetches = 0 /\ ReturnedPrice = last.pre_price

\* C2 (as claimed): after a successful fetch, a price call made when the cached
\* reading's age is >= TTL, age = TTL included, issues exactly one ticker fetch.
C2_Original ==
    (CachingCall /\ last.pre_price # None /\ Age >= _refresh_interval)
        => last.fetches = 1

\* C2 (amended): after a successful fetch, a price call made when the cached
\* reading's age is strictly greater than the TTL issues exactly one ticker
\* fetch; at age = TTL the reading is still served and no fetch is issued.
C2_StaleReadingRefetchedOnce ==
    /\ (CachingCall /\ last.pre_price # None /\ Age > _refresh_interval)
           => last.fetches = 1
    /\ (CachingCall /\ last.pre_price # None /\ Age = _refresh_interval)
           => last.fetches = 0

\* C2 witness: a call later than the TTL after the fetch issues one fetch.
C2_Witness ==
    /\ CachingCall /\ last.pre_price # None
    /\ Age > _refresh_interval /\ last.fetches = 1

\* C3 (as claimed): a price call of the caching controller or of the asset
\* price delegate issues a ticker fetch if and only if no reading is cached or
\* the cached reading fails now - observedAt <= TTL, with one clock read.
C3_Original ==
    last.op \in {"get_executor_config", "c_get_mid_price"}
        => /\ last.fetches = 1 <=>
                (last.pre_price = None \/ ~(Age <= _refresh_interval))
           /\ last.fetches \in {0, 1}
           /\ last.clock_reads = 1

\* C3 (amended): a price call that has the provider identifier (resolved by an
\* earlier call or by this one) issues a ticker fetch if and only if no reading
\* is cached or the cached reading fails now - observedAt <= TTL, now being the
\* one clock value the call read; a call left without an identifier issues no
\* ticker fetch.
C3_FetchIffNotFresh ==
    CachingCall
        => /\ last.id # None =>
                (last.fetches = 1 <=>
                    (last.pre_price = None \/ ~(Age <= _refresh_interval)))
           /\ last.id = None => last.fetches = 0
           /\ last.fetches \in {0, 1}
           /\ last.clock_reads = 1

\* C3 witness: a call exactly TTL after the fetch finds the reading fresh.
C3_Witness ==
    /\ CachingCall /\ last.id # None /\ last.pre_price # None
    /\ Age = _refresh_interval /\ last.fetches = 0

\* C4: when a ticker fetch fails for any reason (it produces no price: request
\* error, missing or empty ticker list, no entry of the market, first entry of
\* the market without a price or malformed), the cached value and its
\* timestamp are left exactly as they were before the call.
C4_FailedFetchLeavesCache ==
    /\ (CachingCall /\ FetchGaveNoPrice)
           => /\ _last_cg_price = last.pre_price
              /\ _last_cg_price_time = last.pre_time
    /\ (last.op \in {"get_executor_config", "c_get_mid_price"}
            /\ last.fetches = 1 /\ last.kind # "priced")
           => /\ FetchGaveNoPrice
              /\ _last_cg_price = last.pre_price
              /\ _last_cg_price_time = last.pre_time

\* C4 witness: a refresh of an existing reading fails because the matching
\* ticker carries no price, and the old reading is still cached.
C4_Witness ==
    /\ CachingCall /\ FetchFailed /\ last.kind = "no_price"
    /\ last.pre_price # None /\ _last_cg_price = last.pre_price

C6_Original ==
    /\ _last_cg_price # None => PositiveFinite(_last_cg_price)
    /\ (CachingCall \/ ControllerCall) /\ ReturnedPrice # None
           => PositiveFinite(ReturnedPrice)

\* A rebalance evaluation that read both the balance and the price.
Evaluated == last.op = "adjust_balance" /\ ~last.read_failed

\* C7: when target - current >= minDeviation (the boundary included), one
\* evaluation submits exactly one order, a buy market order whose amount is
\* (target - current) * price.
C7_BuyClosesGap ==
    (Evaluated /\ target_balance - last.current_balance >= min_difference)
        => last.orders =
             << [type |-> "buy_market",
                 amount |-> (target_balance - last.current_balance)
                                * last.current_price] >>

\* C7 witness: a buy at exactly the threshold, at a price other than 1.
C7_Witness ==
    /\ Evaluated
    /\ target_balance - last.current_balance = min_difference
    /\ last.current_price > 1
    /\ Len(last.orders) = 1 /\ last.orders[1].type = "buy_market"

\* C8: when current - target >= minDeviation (the boundary included), one
\* evaluation submits exactly one order, a sell market order whose amount is
\* current - target, whatever the price.
C8_SellExcess ==
    (Evaluated /\ last.current_balance - target_balance >= min_difference)
        => last.orders =
             << [type |-> "sell_market",
                 amount |-> last.current_balance - target_balance] >>

\* C8 witness: a sell at exactly the threshold, at a price other than 1.
C8_Witness ==
    /\ Evaluated
    /\ last.current_balance - target_balance = min_difference
    /\ last.current_price > 1
    /\ Len(last.orders) = 1 /\ last.orders[1].type = "sell_market"

\* C9: when |target - current| < minDeviation, and when current = target, the
\* evaluation submits no order.
C9_DeadBandNoAction ==
    (Evaluated
        /\ \/ last.current_balance = target_balance
           \/ /\ target_balance - last.current_balance < min_difference
              /\ last.current_balance - target_balance < min_difference)
        => last.orders = <<>>

\* C9 witness: a balance off target by less than the threshold, no order.
C9_Witness ==
    /\ Evaluated
    /\ last.current_balance # target_balance
    /\ target_balance - last.current_balance < min_difference
    /\ last.current_balance - target_balance < min_difference
    /\ last.orders = <<>>

\* C10: whenever the reference price is absent in a cycle (identifier
\* unresolved, or the ticker fetch failed), the controllers return no executor
\* configuration and the script proposes and places no order in that cycle.
C10_AbsentPriceNoOrder ==
    /\ (ControllerCall /\ (last.id = None \/ FetchFailed)) => last.ret = None
    /\ (last.op = "on_tick" /\ (last.pre_id = None \/ FetchFailed))
           => /\ last.proposal = <<>>
              /\ last.placed = <<>>
              /\ (last.refresh => active_orders = {})

\* C10 witness: a refresh tick of the script whose ticker fetch fails after a
\* cycle that had placed orders: the old orders are cancelled, none is placed.
C10_Witness ==
    /\ last.op = "on_tick" /\ FetchFailed
    /\ last.cancelled # {}
    /\ last.placed = <<>> /\ active_orders = {}

\* The last handler invocation was a call that needs the provider identifier.
ResolvingCall ==
    last.op \in {"get_executor_config", "lbank_get_executor_config",
                 "c_get_mid_price", "on_tick"}

\* C11 (as claimed): a failed symbol resolution is never cached: the identifier
\* stays unresolved after it, and while the symbol is unresolved every call
\* that needs the identifier issues a new catalog lookup, so that a call that
\* follows a failed resolution makes the second catalog request.
C11_Original ==
    /\ (ResolvingCall /\ last.pre_id = None) => last.lookups = 1
    /\ (ResolvingCall /\ last.pre_lookup_failed) => last.lookups = 1
    /\ history.lookup_failed => _base_token_coingecko_id = None

\* C12: once the symbol has been resolved, the identifier is kept for the
\* lifetime of the instance: a later call that needs the identifier issues no
\* catalog lookup and leaves the stored identifier as it was, and the catalog
\* requests that returned an identifier total exactly one however many calls
\* follow.
C12_ResolvedIdentifierKept ==
    /\ (ResolvingCall /\ last.pre_id # None)
           => /\ last.lookups = 0
              /\ _base_token_coingecko_id = last.pre_id
    /\ history.catalog_hits <= 1
    /\ prog \in {"pmm_simple_mexc", "pmm_simple_lbank",
                 "coin_gecko_asset_price_delegate", "simple_pmm_cg"}
           => (_base_token_coingecko_id # None <=> history.catalog_hits = 1)

\* C12 witness: a call made with the symbol resolved and a reading already
\* cached (at least the second call after the resolution) issues no lookup.
C12_Witness ==
    /\ last.op \in {"get_executor_config", "c_get_mid_price"}
    /\ last.pre_id # None /\ last.pre_price # None
    /\ last.lookups = 0 /\ history.catalog_hits = 1
    /\ _base_token_coingecko_id = last.pre_id

\* The entries of a catalog whose symbol equals symbol ignoring letter case.
CatalogMatches(data, symbol) ==
    {i \in 1..Len(data) : Lower(data[i].symbol) = Lower(symbol)}

\* C13: symbol resolution returns the identifier of the first catalog entry, in
\* the provider's listing order, whose symbol equals the requested symbol
\* ignoring letter case, and absent (None) when no entry matches.
C13_FirstCatalogMatchWins ==
    (last.op = "get_coingecko_id" /\ last.response.status = "ok")
        => LET data == last.response.data
               matches == CatalogMatches(data, last.symbol)
           IN IF matches = {} THEN last.ret = None
              ELSE \E i \in matches :
                      /\ \A j \in matches : i <= j
                      /\ last.ret = Str(data[i].id)

\* C13 witness: two entries match a symbol written in a third letter case, and
\* the identifier of the first of them is returned.
C13_Witness ==
    /\ last.op = "get_coingecko_id" /\ last.response.status = "ok"
    /\ Cardinality(CatalogMatches(last.response.data, last.symbol)) = 2
    /\ last.response.data[1].id # last.response.data[2].id
    /\ \A i \in 1..2 : last.response.data[i].symbol # last.symbol
    /\ last.ret = Str(last.response.data[1].id)

\* The last invocation was a direct ticker fetch on a ticker list in which each
\* venue appears once, with a price.
PricedOncePerVenue ==
    /\ last.op = "get_price_from_specific_market_coingecko"
    /\ last.response.status = "ok" /\ last.response.has_tickers
    /\ \A i \in 1..Len(last.response.tickers) :
          /\ last.response.tickers[i].usd.tag = "num"
          /\ \A j \in 1..Len(last.response.tickers) :
                last.response.tickers[i].identifier
                    = last.response.tickers[j].identifier => i = j

\* C14: for a ticker list in which each venue appears once with a price, the
\* fetched price for market M is the price of the entry whose venue identifier
\* is exactly M, wherever it stands in the list, and None when no entry's
\* venue identifier equals M (an identifier that differs from M by letter case
\* does not count, and no other market's price is returned).
C14_VenueExactMatch ==
    PricedOncePerVenue
        => LET tickers == last.response.tickers
               M == last.quote_market_identifier
           IN /\ \A i \in 1..Len(tickers) :
                    tickers[i].identifier = M
                        => last.ret = Decimal(tickers[i].usd.v)
              /\ (\A i \in 1..Len(tickers) : tickers[i].identifier # M)
                    => last.ret = None

\* C14 witness: the entry of the market stands second, behind an entry whose
\* venue differs from it by letter case only and carries another price.
C14_Witness ==
    /\ PricedOncePerVenue
    /\ Len(last.response.tickers) = 2
    /\ last.response.tickers[1].identifier # last.quote_market_identifier
    /\ Lower(last.response.tickers[1].identifier) = Lower(last.quote_market_identifier)
    /\ last.response.tickers[2].identifier = last.quote_market_identifier
    /\ last.response.tickers[1].usd # last.response.tickers[2].usd
    /\ last.ret = Decimal(last.response.tickers[2].usd.v)

\* C15 (as claimed): when several ticker entries share the configured venue
\* identifier, only the first one encountered determines the result: if that
\* first entry has no price the result is absent, even when a later entry of
\* the same venue has a price; if it has a price, that price is the result.
C15_Original ==
    /\ (last.op = "get_price_from_specific_market_coingecko"
            /\ last.response.status = "ok" /\ last.response.has_tickers)
           => LET tickers == last.response.tickers
                  M == last.quote_market_identifier
              IN \A i \in 1..Len(tickers) :
                    (/\ tickers[i].identifier = M
                     /\ \A j \in 1..(i - 1) : tickers[j].identifier # M)
                        => /\ tickers[i].usd = None => last.ret = None
                           /\ tickers[i].usd.tag = "num"
                                 => last.ret = Decimal(tickers[i].usd.v)
    /\ ((CachingCall \/ ControllerCall \/ last.op = "on_tick")
            /\ last.fetches = 1 /\ last.kind = "no_price")
           => last.cg_price = None

\* C16 (as claimed): no network or parse error raised during symbol resolution
\* or price fetching escapes to the consumers: no resolving or price call ends
\* with an exception, and the utility functions return an optional value.
C16_Original ==
    /\ last.op = "init_markets" => ~last.raised
    /\ (CachingCall \/ ControllerCall \/ last.op = "on_tick") => ~last.raised
    /\ last.op \in {"get_coingecko_id", "get_price_from_specific_market_coingecko"}
           => last.ret # Raised

\* C17: the readiness query of the asset price delegate is true if and only if
\* some ticker fetch has succeeded (and been cached) since construction: it is
\* false at construction and, fetched_ok never turning false again, it stays
\* true after the first successful fetch whatever later fetches do.
C17_ReadyIffEverCached ==
    prog = "coin_gecko_asset_price_delegate"
        => /\ ready_value(_last_cg_price) <=> history.fetched_ok
           /\ last.op = "ready" => (last.ret <=> history.fetched_ok)
           /\ last.op = "init" => ~ready_value(_last_cg_price)

\* C17 witness: the query answers true after a refresh that came later than
\* the cached reading and failed.
C17_Witness ==
    /\ last.op = "ready" /\ last.ret
    /\ history.fetched_ok
    /\ history.fetch_at > _last_cg_price_time

\* The last price call came less than one TTL after the latest ticker request
\* (at the same instant, for the controller that has no TTL of its own).
WithinBurst ==
    /\ last.pre_fetch_at > 0
    /\ \/ last.now = last.pre_fetch_at
       \/ last.now - last.pre_fetch_at < _refresh_interval

\* C18 (as claimed): in every reachable state, with or without a cached
\* reading, a burst of price calls within one TTL interval causes at most one
\* ticker fetch: a call made less than one TTL after a ticker request issues
\* no further ticker request.
C18_Original ==
    ((CachingCall \/ ControllerCall) /\ WithinBurst) => last.fetches = 0

\* The decision that follows from a balance, a price, the target and a positive
\* minimum deviation: a buy of (target - current) * price, a sell of
\* current - target, or nothing inside the dead-band.
Decision(current, price, target, minDeviation) ==
    IF target - current >= minDeviation
    THEN << [type |-> "buy_market", amount |-> (target - current) * price] >>
    ELSE IF current - target >= minDeviation
    THEN << [type |-> "sell_market", amount |-> current - target] >>
    ELSE <<>>

\* C19: a failed order submission is never retried or compensated inside the
\* evaluation: the evaluation whose submission fails has sent exactly that one
\* order request, the failed call being its last step, and raises nothing;
\* and the evaluation that follows a failed submission decides from the
\* balance and the price it reads itself.
C19_FailedSubmissionNotRetried ==
    last.op = "adjust_balance"
        => /\ last.submitted = "error"
                => /\ last.requests = last.orders
                   /\ Len(last.requests) = 1
                   /\ last.steps = <<"get_current_balance", "get_current_price",
                                     "decide", "execute_market_order">>
                   /\ ~last.raised
           /\ (last.prior_submitted = "error" /\ ~last.read_failed)
                => last.orders = Decision(last.current_balance, last.current_price,
                                          target_balance, min_difference)

\* C19 witness: the evaluation after a failed submission reads the balance
\* still off target, sends one order and fails again.
C19_Witness ==
    /\ last.op = "adjust_balance"
    /\ last.prior_submitted = "error" /\ last.submitted = "error"
    /\ Len(last.requests) = 1

\* C20: within one rebalance evaluation the balance is read, then the price is
\* read, then the decision is computed, each once and in that order (the price
\* is not read when the balance read fails, and nothing is decided when a read
\* fails), and the decision is the one that follows from the two values read
\* in this evaluation, whatever an earlier evaluation read or decided.
C20_ReadsThenDecision ==
    last.op = "adjust_balance"
        => /\ last.balance_reads = 1 /\ last.price_reads \in {0, 1}
           /\ last.steps[1] = "get_current_balance"
           /\ last.price_reads = 1 <=> (Len(last.steps) >= 2
                                          /\ last.steps[2] = "get_current_price")
           /\ last.read_failed
                => /\ Len(last.steps) = last.balance_reads + last.price_reads
                   /\ last.orders = <<>> /\ last.requests = <<>>
           /\ ~last.read_failed
                => /\ SubSeq(last.steps, 1, 3) =
                        <<"get_current_balance", "get_current_price", "decide">>
                   /\ last.orders = Decision(last.current_balance, last.current_price,
                                             target_balance, min_difference)

\* C20 witness: an evaluation that follows one that submitted an order reads a
\* balance inside the dead-band and decides nothing.
C20_Witness ==
    /\ Evaluated
    /\ last.prior_submitted = "ok"
    /\ last.current_balance # target_balance
    /\ last.orders = <<>>
    /\ last.steps = <<"get_current_balance", "get_current_price", "decide">>

\* C21: a quote is derived from the reference price as buy price =
\* refPrice * (1 - bidSpread) and sell price = refPrice * (1 + askSpread), with
\* no clamping and no rounding: a refresh tick that fetched a price proposes a
\* buy and a sell at exactly these prices, and a reference price of 100 with
\* both spreads at 0.002 gives 99.8 and 100.2.
C21_QuotesAroundReference ==
    /\ (last.op = "on_tick" /\ last.fetches = 1 /\ last.cg_price.tag = "Decimal")
           => /\ Len(last.proposal) = 2
              /\ last.proposal[1].order_side = "BUY"
              /\ last.proposal[1].price
                    = Milli(last.cg_price.v * 1000 - last.cg_price.v * bid_spread)
              /\ last.proposal[2].order_side = "SELL"
              /\ last.proposal[2].price
                    = Milli(last.cg_price.v * 1000 + last.cg_price.v * ask_spread)
    /\ LET quote == create_proposal(Decimal(100))
       IN /\ quote[1].price = Milli(99800)
          /\ quote[2].price = Milli(100200)

\* C21 witness: a refresh tick fetches the reference price 2 and places the
\* buy at 1.996 and the sell at 2.004.
C21_Witness ==
    /\ last.op = "on_tick" /\ last.fetches = 1
    /\ last.cg_price = Decimal(2)
    /\ Len(last.placed) = 2
    /\ last.placed[1].price = Milli(1996)
    /\ last.placed[2].price = Milli(2004)

\* C22 (as claimed): replacement of the cached reading is atomic: no reader,
\* including one running concurrently with a refresh on a shared oracle, ever
\* observes a half-written reading: the pair (value, observedAt) a reader sees
\* is the reading the refresh found or the reading the refresh fetched, never
\* the new value with the old timestamp or the reverse.
C22_Original ==
    last.op = "concurrent_read"
        => \/ /\ last.price = last.call.pre_price
              /\ last.time = last.call.pre_time
           \/ /\ last.price = last.call.cg_price
              /\ last.time = last.call.now

\* C23: if a call is cancelled or aborted while its ticker fetch is in flight,
\* the cache is left exactly as it was before the call: neither the value nor
\* the timestamp is written.
C23_CancelledFetchLeavesCache ==
    last.op = "fetch_cancelled"
        => /\ _last_cg_price = last.pre_price
           /\ _last_cg_price_time = last.pre_time
           /\ pc = "idle"

\* C23 witness: the refresh of an existing reading, due because the reading is
\* older than the TTL, is cancelled in flight and the old reading is still
\* cached with its old timestamp.
C23_Witness ==
    /\ last.op = "fetch_cancelled"
    /\ last.pre_price # None
    /\ last.now - last.pre_time > _refresh_interval
    /\ _last_cg_price = last.pre_price
    /\ _last_cg_price_time = last.pre_time

\* C24: the rebalance decision is a function of (current, target, price,
\* minDeviation) only: an evaluation that reads the same balance and the same
\* price as an earlier evaluation of the instance decides the same order, of
\* the same type and size, whatever was decided, submitted or failed in
\* between; and no step changes the target or the minimum deviation the
\* instance holds, the only state an evaluation reads besides its two reads.
C24_DecisionDependsOnInputsOnly ==
    /\ [](  (Evaluated /\ last.prior.evaluated
                /\ last.current_balance = last.prior.current_balance
                /\ last.current_price = last.prior.current_price)
            => last.orders = last.prior.orders)
    /\ [][target_balance' = target_balance /\ min_difference' = min_difference]_vars

\* C24 witness: an evaluation reads the balance and the price of an earlier
\* evaluation that decided an order, after an evaluation in between that could
\* not read, and decides the same order again.
C24_Witness ==
    /\ Evaluated /\ last.prior.evaluated
    /\ last.prior_submitted = "none"
    /\ last.current_balance = last.prior.current_balance
    /\ last.current_price = last.prior.current_price
    /\ last.current_price > 1
    /\ Len(last.orders) = 1
    /\ last.orders = last.prior.orders

\* The sides of which the last tick of the random-range script put an order on
\* the exchange.
SidesPlaced ==
    {last.placed[i].order_side :
        i \in {j \in 1..Len(last.placed) : last.placed[j].amount.v > 0}}

\* C25 (as claimed): in the random-range market-making script, every refresh
\* tick places either both a buy order and a sell order or no order at all: no
\* tick ends with exactly one of the two sides placed.
C25_Original ==
    (last.op = "random_on_tick" /\ last.refresh)
        => SidesPlaced \in {{}, {"BUY", "SELL"}}

\* C27: in the random-range market-making script, each time orders are placed
\* (on every refresh tick, in fact) the delay to the next refresh lies in
\* [min_order_refresh_time, max_order_refresh_time] and the order amount of the
\* proposal lies in [min_order_amount, max_order_amount], the buy order and the
\* sell order of the proposal carrying the same amount, which is the amount of
\* every order the tick puts on the exchange.
C27_RandomDelayAndAmountInRange ==
    (last.op = "random_on_tick" /\ last.refresh)
        => /\ create_timestamp - last.now >= config.min_order_refresh_time
           /\ create_timestamp - last.now <= config.max_order_refresh_time
           /\ Len(last.proposal) = 2
           /\ last.proposal[1].order_side = "BUY"
           /\ last.proposal[2].order_side = "SELL"
           /\ last.proposal[1].amount = last.proposal[2].amount
           /\ last.proposal[1].amount.v >= min_order_amount
           /\ last.proposal[1].amount.v <= max_order_amount
           /\ \A i \in 1..Len(last.placed) :
                 last.placed[i].amount.v > 0
                    => last.placed[i].amount = last.proposal[1].amount

\* C27 witness: a later refresh (not the first one) places both orders with an
\* amount inside the range, and the next refresh is set the longest delay
\* away, the range holding more than one delay.
C27_Witness ==
    /\ last.op = "random_on_tick" /\ last.refresh
    /\ last.pre_create_timestamp > 0
    /\ SidesPlaced = {"BUY", "SELL"}
    /\ last.proposal[1].amount.v > min_order_amount
    /\ last.proposal[1].amount.v < max_order_amount
    /\ config.min_order_refresh_time < config.max_order_refresh_time
    /\ create_timestamp - last.now = config.max_order_refresh_time

\* C26 (as claimed): in the CoinGecko market-making script, orders are
\* cancelled and replaced every order_refresh_time seconds: a refresh runs only
\* on a tick whose timestamp has reached create_timestamp, it cancels all
\* active orders before placing new ones (the orders on the exchange after it
\* are the ones it placed), and it sets the next refresh to exactly
\* current_timestamp + order_refresh_time, so that two refreshes are never
\* closer than order_refresh_time apart.
C26_Original ==
    (last.op = "on_tick" /\ last.refresh)
        => /\ last.pre_create_timestamp <= last.now
           /\ active_orders = {last.placed[i] : i \in 1..Len(last.placed)}
           /\ create_timestamp = last.now + order_refresh_time
           /\ last.pre_fetch_at > 0
                => last.now - last.pre_fetch_at >= order_refresh_time

\* The last invocation was a trading step (a controller call, or a refresh
\* tick of the script) that got no price: the identifier is unresolved, or the
\* ticker fetch gave none (request error, no ticker of the market, no price
\* field, malformed answer).
PriceAbsent ==
    /\ ControllerCall \/ (last.op = "on_tick" /\ last.refresh)
    /\ last.id = None \/ FetchGaveNoPrice

\* The last invocation was a trading step that follows a step without a price.
AfterAbsentPrice ==
    /\ ControllerCall \/ last.op = "on_tick"
    /\ last.pre_fetch_failed \/ last.pre_lookup_failed

\* C28 (as claimed): absence of a price skips one tick's trading action only
\* and is not escalated: on the tick where the price is absent no order is
\* placed and no error is raised to the host, and the skip does not suppress
\* trading on the following tick (the step that follows fetches again as soon
\* as the identifier is there and, for the script, the refresh is due, and it
\* trades when it gets a price).
C28_Original ==
    /\ PriceAbsent
           => /\ ~last.raised
              /\ ControllerCall => last.ret = None
              /\ last.op = "on_tick" => (last.placed = <<>> /\ active_orders = {})
    /\ (AfterAbsentPrice /\ ControllerCall /\ last.id # None) => last.fetches = 1
    /\ (AfterAbsentPrice /\ last.op = "on_tick" /\ last.pre_id # None
            /\ last.pre_create_timestamp <= last.now) => last.fetches = 1
    /\ (AfterAbsentPrice /\ ControllerCall /\ last.kind = "priced")
           => /\ last.ret \notin {None, Raised}
              /\ last.ret.entry_price = last.cg_price
    /\ (AfterAbsentPrice /\ last.op = "on_tick" /\ last.kind = "priced")
           => last.proposal = create_proposal(last.cg_price)

\* C29 (as claimed): in the asset-price delegate variants, when a refresh fetch
\* fails (it gives no price, for whatever reason) and a prior reading exists,
\* the call returns the prior cached value (a stale price is served) instead
\* of absent.
C29_Original ==
    (last.op \in {"c_get_mid_price", "get_price"}
        /\ FetchGaveNoPrice /\ last.pre_price # None)
        => /\ ~last.raised
           /\ last.ret = last.pre_price
           /\ last.ret \notin {None, NaN}

\* C30: every executor configuration returned by the CoinGecko-priced
\* controllers has its entry price equal to the oracle's price: the value
\* fetched in that call or, in the caching variant when no fetch was due, the
\* cached value; it is the reading the cache holds after the call, whatever
\* price the caller passed.  The level and the amount are those of the call,
\* and the side is the one derived from the level of the call.
C30_EntryPriceIsOraclePrice ==
    (ControllerCall /\ last.ret \notin {None, Raised})
        => /\ last.ret.entry_price =
                 IF last.fetches = 1 THEN last.cg_price ELSE last.pre_price
           /\ last.op = "lbank_get_executor_config" => last.fetches = 1
           /\ last.op = "get_executor_config"
                 => last.ret.entry_price = _last_cg_price
           /\ last.ret.level_id = last.args[1]
           /\ last.ret.amount = last.args[3]
           /\ last.ret.side = get_trade_type_from_level_id(last.args[1])

\* C30 witness: the caching controller refreshes a cached reading, the fetched
\* price differs from the cached one and from the price the caller passed, and
\* the configuration of the sell level carries the fetched price.
C30_Witness ==
    /\ last.op = "get_executor_config" /\ last.fetches = 1
    /\ last.pre_price \notin {None, last.cg_price}
    /\ last.args[1] = "sell_0"
    /\ last.args[2] # last.cg_price
    /\ last.ret \notin {None, Raised}
    /\ last.ret.entry_price = last.cg_price
    /\ last.ret.level_id = "sell_0"

\* The programs of C31: the caching controller and the asset-price delegate,
\* alone or shared by two threads.
CachingResolvers ==
    {"pmm_simple_mexc", "coin_gecko_asset_price_delegate",
     "shared_pmm_simple_mexc", "shared_coin_gecko_asset_price_delegate"}

\* C31: in every state of the caching controller and of the asset-price
\* delegate in which no price call is between its statements, a cached price
\* exists only if the symbol identifier is resolved, and the cached price is
\* empty exactly when the cached timestamp still has its initial value 0.
\* Value and timestamp are only written together, by a successful fetch: after
\* a call whose fetch returned a price the cache holds that price with the
\* time the call read, and after any other call it holds what it held before.
C31_CacheValueAndTimeTogether ==
    (prog \in CachingResolvers /\ pc = "idle")
        => /\ _last_cg_price # None => _base_token_coingecko_id # None
           /\ _last_cg_price = None <=> _last_cg_price_time = 0
           /\ (CachingCall /\ last.fetches = 1 /\ last.cg_price \notin {None, Raised})
                 => /\ _last_cg_price = last.cg_price
                    /\ _last_cg_price_time = last.now
           /\ (CachingCall /\ ~(last.fetches = 1 /\ last.cg_price \notin {None, Raised}))
                 => /\ _last_cg_price = last.pre_price
                    /\ _last_cg_price_time = last.pre_time

\* C31 witness: the first fetch of the asset-price delegate fails and leaves
\* the cache empty with timestamp 0; this state is the one after a later call
\* whose fetch returned a price, which wrote the price and the time together.
C31_Witness ==
    /\ prog = "coin_gecko_asset_price_delegate"
    /\ last.op = "c_get_mid_price" /\ last.fetches = 1
    /\ last.pre_fetch_failed /\ last.pre_price = None /\ last.pre_time = 0
    /\ last.pre_id # None
    /\ _last_cg_price = last.cg_price /\ _last_cg_price # None
    /\ _last_cg_price_time = last.now /\ last.now > 0

\* C32: one rebalance evaluation submits at most one order request: it never
\* submits both a buy and a sell, and never two orders of the same side, for
\* any balance, target, price and threshold (and whether or not the submission
\* succeeds).  The request is a buy only below the target and a sell only
\* above it.
C32_AtMostOneOrderRequest ==
    last.op = "adjust_balance"
        => /\ Len(last.requests) <= 1
           /\ \A i, j \in 1..Len(last.requests) : i = j
           /\ \A i \in 1..Len(last.requests) :
                /\ last.requests[i].type \in {"buy_market", "sell_market"}
                /\ last.requests[i].type = "buy_market"
                      => last.current_balance < target_balance
                /\ last.requests[i].type = "sell_market"
                      => last.current_balance > target_balance

\* C32 witness: with the smallest threshold and the balance above the target,
\* the evaluation sends one sell request and nothing else.
C32_Witness ==
    /\ Evaluated
    /\ min_difference = 1
    /\ last.current_balance > target_balance
    /\ Len(last.requests) = 1 /\ last.requests[1].type = "sell_market"
    /\ last.submitted = "ok"

\* The balance read or the price read of the last rebalance evaluation failed:
\* the balance request raised (the price is then not requested), or the price
\* request raised, or its answer does not list the trading pair.
ReadFailed ==
    /\ last.op = "adjust_balance"
    /\ \/ last.price_reads = 0
       \/ last.price_kind \in {"request_error", "no_pair"}

\* C33: if the balance read or the price read fails during a rebalance
\* evaluation (request error, or the trading pair missing from the ticker
\* answer), the evaluation submits no order at all -- no sell order either,
\* although the size of a sell does not use the price -- and it returns
\* normally, without raising.
C33_FailedReadNoOrder ==
    ReadFailed
        => /\ last.orders = <<>>
           /\ last.requests = <<>>
           /\ last.submitted = "none"
           /\ \A i \in 1..Len(last.steps) : last.steps[i] # "execute_market_order"
           /\ ~last.raised

\* C33 witness: the balance read is far enough above the target for a sell,
\* the answer to the price request does not list the trading pair, and the
\* evaluation sends nothing.
C33_Witness ==
    /\ last.op = "adjust_balance"
    /\ last.price_reads = 1 /\ last.price_kind = "no_pair"
    /\ last.current_balance - target_balance >= min_difference
    /\ last.requests = <<>>
    /\ ~last.raised

\* C34: when the asset is missing from the account listing, the balance read
\* reports usable, total and frozen all as zero instead of an error, so the
\* rebalance evaluation goes on to read the price with the current balance
\* taken as 0 and, once the price is read and target >= minDeviation, submits a
\* buy for target * price.
C34_MissingAssetReadsAsZero ==
    (last.op = "adjust_balance" /\ last.balance_kind = "not_listed")
        => /\ last.balance_info = [usable |-> 0, total |-> 0, frozen |-> 0]
           /\ last.current_balance = 0
           /\ last.price_reads = 1
           /\ ~last.raised
           /\ (last.price_kind = "priced" /\ target_balance >= min_difference)
                 => last.requests =
                      << [type |-> "buy_market",
                          amount |-> target_balance * last.current_price] >>

\* C34 witness: the account lists another asset only, the target is above the
\* threshold and the price is not 1: one buy for target * price is sent.
C34_Witness ==
    /\ last.op = "adjust_balance" /\ last.balance_kind = "not_listed"
    /\ target_balance > min_difference
    /\ last.price_kind = "priced" /\ last.current_price > 1
    /\ Len(last.requests) = 1
    /\ last.requests[1].type = "buy_market"
    /\ last.requests[1].amount = target_balance * last.current_price

\* C35 (as claimed): in the CoinGecko market-making script, a refresh tick on
\* which the price is absent (the ticker fetch gave none) still cancels all
\* active orders and still advances the next refresh by order_refresh_time:
\* after such a tick the strategy has no active orders, and the ticks that
\* follow neither fetch a price nor place orders until order_refresh_time has
\* elapsed since it.
C35_Original ==
    /\ (last.op = "on_tick" /\ last.refresh /\ FetchGaveNoPrice)
           => /\ active_orders = {}
              /\ last.placed = <<>>
              /\ create_timestamp = last.now + order_refresh_time
    /\ (last.op = "on_tick" /\ last.pre_fetch_failed
            /\ last.now - last.pre_fetch_at < order_refresh_time)
           => /\ last.fetches = 0
              /\ last.placed = <<>>

\* C36: in the CoinGecko market-making script the symbol is resolved once, at
\* market initialisation: no tick sends a catalog request and the identifier a
\* tick finds is the one it leaves.  If that resolution yielded no identifier,
\* every later tick cancels nothing, fetches nothing, places nothing and leaves
\* the next refresh time as it was: the script never has fetched a price, never
\* has an order on the exchange and never has set a refresh time.
C36_UnresolvedScriptStaysIdle ==
    /\ prog = "simple_pmm_cg" => history.catalog_hits <= 1
    /\ (prog = "simple_pmm_cg" /\ phase # "new" /\ _base_token_coingecko_id = None)
           => /\ history.catalog_hits = 0
              /\ history.fetch_at = 0
              /\ active_orders = {}
              /\ create_timestamp = 0
    /\ last.op = "on_tick"
           => /\ last.lookups = 0
              /\ _base_token_coingecko_id = last.pre_id
    /\ (last.op = "on_tick" /\ last.pre_id = None)
           => /\ history.lookup_failed /\ history.catalog_hits = 0
              /\ ~last.refresh
              /\ last.cancelled = {}
              /\ last.fetches = 0 /\ history.fetch_at = 0
              /\ last.proposal = <<>> /\ last.placed = <<>>
              /\ active_orders = {}
              /\ create_timestamp = last.pre_create_timestamp

\* C36 witness: the catalog did not list the symbol at initialisation; a tick
\* of a later second, at which a refresh would be due, does nothing.
C36_Witness ==
    /\ last.op = "on_tick" /\ last.pre_id = None
    /\ history.lookup_failed
    /\ last.now > 1 /\ last.pre_create_timestamp <= last.now
    /\ last.fetches = 0 /\ last.placed = <<>>

\* A step in which the provider answers well: if the step is a price call, the
\* catalog lookup it made (if any) found the symbol and the ticker fetch it
\* made (if any) carried a priced entry of the configured market.
ProviderAnswersWell ==
    (last' # last /\ last'.op \in {"get_executor_config", "c_get_mid_price", "get_price"})
        => /\ last'.lookups = 1 => last'.id # None
           /\ last'.fetches = 1 => last'.kind = "priced"

\* The last price call returned a price (or an executor configuration with
\* its entry price) instead of absent.
CallReturnedPrice == CachingCall /\ ReturnedPrice \notin {None, NaN}

\* The oracle serves: the identifier is resolved, a price is cached, the
\* delegate is ready (and says so when asked), and the last price call
\* returned a price.
OracleServes ==
    /\ _base_token_coingecko_id # None
    /\ _last_cg_price # None
    /\ ready_value(_last_cg_price)
    /\ last.op = "ready" => last.ret
    /\ CachingCall => CallReturnedPrice

\* C37: liveness of the caching oracle.  While calls keep being made (the
\* fairness of LiveSpec), if from some point on the provider answers every
\* catalog lookup with a matching symbol and every ticker fetch with a priced
\* entry of the configured market, then eventually, and from then on, the
\* identifier is resolved, a price is cached, readiness is true and the calls
\* return a price (or an order configuration) rather than absent; such a call
\* does happen.
C37_OracleEventuallyServes ==
    <>[][ProviderAnswersWell]_vars
        => /\ <>[]OracleServes
           /\ <>CallReturnedPrice

\* C37 witness: after a failed catalog lookup and then failed ticker fetches,
\* a call of the asset-price delegate gets a priced answer, caches it and
\* returns it: the oracle serves.
C37_Witness ==
    /\ prog = "coin_gecko_asset_price_delegate"
    /\ last.op = "c_get_mid_price"
    /\ history.catalog_hits = 1 /\ last.pre_fetch_failed
    /\ last.pre_price = None
    /\ last.fetches = 1 /\ last.kind = "priced"
    /\ OracleServes /\ CallReturnedPrice
    /\ ReturnedPrice = _last_cg_price

====
